---- MODULE Spec2Model ----
(***************************************************************************)
(* Task distribution and capacity control of OperatorOS:                   *)
(*   - TaskProcessor (task_processor.py): the priority queue, the worker   *)
(*     loop, _process_task_internal and cancel_task;                       *)
(*   - AgentMasterController (agent_master_controller.py): process_task,   *)
(*     scale_pool and the monitoring loop (_update_pool_status followed by *)
(*     _auto_scale_pools);                                                 *)
(*   - HealthMonitor (health_monitor.py): the monitoring loop, the health  *)
(*     score, the alerts and get_health_report;                            *)
(*   - SpecializedAgentPools.route_query (agent_pools.py): what the        *)
(*     handler returns to _process_task_internal.                          *)
(* The tables Task, Agent and AgentPool (models.py) are the shared state.  *)
(* Every thread works on the tables through its own database session: a    *)
(* query reads the committed rows at the instant it runs, db.session       *)
(* .commit() writes the values the thread assigned, and nothing in the     *)
(* code takes a lock around the two.  A step of the model is therefore a   *)
(* stretch of code that ends with a commit (or a queue operation); what a  *)
(* thread read before is kept in its locals.                               *)
(***************************************************************************)
EXTENDS Integers, FiniteSets, Sequences, TLC

VARIABLES
    task,        \* table Task: sequence of rows, a task's id is its index
    agent,       \* table Agent: function from the ids of the existing rows
    pool,        \* table AgentPool: pool_type -> current_agents, active_agents
    task_queue,  \* TaskProcessor.task_queue: set of <<priority, id, timestamp>>
    clock,       \* number of submit_task calls so far (the timestamps taken)
    pc,          \* per thread: where it stands in the operation it runs
    loc,         \* per thread: what the operation has read so far
    tick0,       \* history: what the tables held when the scaling decision
                 \* for a pool was taken (used to state the claims only)
    last,        \* history, per thread: the last call of an operation, with
                 \* its arguments, what the tables held when it started and
                 \* what it returned (used to state the claims only)
    env,         \* the machine and the store as they are now: what psutil
                 \* measures and whether the database answers
    health,      \* HealthMonitor: is_monitoring, health_data and where its
                 \* monitoring thread stands
    is_running   \* TaskProcessor.is_running

(* The state of the health monitor, of its surroundings and of the task    *)
(* processor's switch: no operation on tasks or pools assigns to them.     *)
hvars == <<env, health, is_running>>

vars == <<task, agent, pool, task_queue, clock, pc, loc, tick0, last, hvars>>

----------------------------------------------------------------------------
(* Bounds of the model *)

MaxTasks == 3        \* rows created in table Task for the queue
MaxPoolTasks == 5    \* rows created in table Task for the pools: more than
                     \* twice the max_agents of the pool they belong to
MaxProcessed == 2    \* largest task id handed to process_task for the pools
MaxAgentId == 4      \* agent rows that can exist or be referred to at once
MaxSubmits == 3      \* submit_task calls
MaxCount == 2        \* largest count passed to scale_pool
MaxConcTasks == 2    \* rows created in table Task when threads interleave
CapSports == 2       \* max_agents of the sports pool in the model
CapGeneral == 2      \* max_agents of the general pool in the model

NULL == 0

TaskIds == 1..MaxPoolTasks
AgentIds == 1..MaxAgentId

(* Two of the five default pools.  min_agents is the source's value; the   *)
(* source's max_agents (6 and 15) are more rows than can be enumerated, so *)
(* each pool's max_agents is the source's value capped by a model bound.   *)
Min2(a, b) == IF a < b THEN a ELSE b

default_pools ==
    [sports  |-> [min |-> 1, max |-> Min2(6, CapSports)],
     general |-> [min |-> 2, max |-> Min2(15, CapGeneral)]]

PoolTypes == DOMAIN default_pools
min_agents(d) == default_pools[d].min
max_agents(d) == default_pools[d].max

(* The order in which AgentPool.query...all() yields the pools. *)
PoolOrder == <<"sports", "general">>

RequestThreads == {"r1", "r2"}
MonitorThread == "mon"
WorkerThreads == {"w1"}
AdminThread == "adm"
\* the request threads of a server that serves three requests at a time
RoundThreads == RequestThreads \cup {"r3"}
Threads == RoundThreads \cup {MonitorThread} \cup WorkerThreads
               \cup {AdminThread}

Terminal == {"completed", "failed", "cancelled"}

----------------------------------------------------------------------------
(* Queries on the tables *)

ExistingTasks == DOMAIN task
ExistingAgents == DOMAIN agent

\* Agent.query.filter_by(agent_type=d, status=s)
AgentsOf(d, s) == {a \in ExistingAgents :
                      agent[a].agent_type = d /\ agent[a].status = s}
\* Agent.query.filter_by(agent_type=d)
AgentsOfType(d) == {a \in ExistingAgents : agent[a].agent_type = d}
\* Task.query.filter_by(task_type=d, status='pending').count()
PendingTasks(d) == Cardinality({t \in ExistingTasks :
                      task[t].task_type = d /\ task[t].status = "pending"})

(* What the tables hold about pool d, counted row by row: the value of the *)
(* history variable tick0 while the monitoring loop works on pool d.       *)
TableSnapshot(d) ==
    [dom |-> d,
     current |-> pool[d].current_agents,
     pending |-> Cardinality({k \in DOMAIN task :
                    task[k].task_type = d /\ task[k].status = "pending"}),
     idle |-> Cardinality({a \in DOMAIN agent :
                    agent[a].agent_type = d /\ agent[a].status = "idle"}),
     total |-> Cardinality({a \in DOMAIN agent : agent[a].agent_type = d})]

(* The ids a thread still holds in its locals. *)
HeldAgents == UNION {loc[t].victims \cup {loc[t].agent} : t \in Threads}

(* Ids for new Agent rows: never one that exists or that some thread still *)
(* refers to, so that a stale reference is never taken for a new row.      *)
FreeAgentIds == AgentIds \ (ExistingAgents \cup HeldAgents)

RECURSIVE FirstFree(_, _)
FirstFree(S, n) ==
    IF n = 0 THEN {}
    ELSE LET a == CHOOSE x \in S : \A y \in S : x <= y
         IN  {a} \cup FirstFree(S \ {a}, n - 1)

(* An Agent row.  last_used holds a time stamp, kept here as the statement *)
(* that wrote it last: "insert" (the column default, models.py line 29),   *)
(* "assign" (agent_master_controller.py line 307) or "finish"              *)
(* (task_processor.py line 151).  total_tasks is the entry of that name in *)
(* column performance_metrics, 0 while the column holds the empty default. *)
NewAgent(d) ==
    [agent_type |-> d, status |-> "idle", last_used |-> "insert",
     total_tasks |-> 0]

\* db.session.add(Agent(...)) for each id of ids
InsertAgents(tbl, ids, d) ==
    [a \in DOMAIN tbl \cup ids |-> IF a \in ids THEN NewAgent(d) ELSE tbl[a]]

\* db.session.delete(agent) for each id of ids
DeleteAgents(tbl, ids) == [a \in DOMAIN tbl \ ids |-> tbl[a]]

(* Deleting an Agent row de-associates its tasks: the relationship         *)
(* Agent.tasks has no delete cascade, so the flush sets agent_id of the    *)
(* tasks of a deleted agent to NULL.                                       *)
Deassociate(tbl, ids) ==
    [t \in DOMAIN tbl |->
        IF tbl[t].agent_id \in ids THEN [tbl[t] EXCEPT !.agent_id = NULL]
        ELSE tbl[t]]

----------------------------------------------------------------------------
(* Threads *)

NoLocals == [task |-> NULL, agent |-> NULL, dom |-> "", cur |-> 0, n |-> 0,
             victims |-> {}, counts |-> <<>>, expired |-> FALSE, i |-> 0,
             entry |-> <<>>, reply |-> [kind |-> "", text |-> ""]]

NoTick == [dom |-> "", current |-> 0, pending |-> 0, idle |-> 0, total |-> 0]

\* the counts of pool type d, if there is such a pool
SnapshotOf(d) == IF d \in PoolTypes THEN TableSnapshot(d) ELSE NoTick

(* The history of a thread that has called nothing yet.  Variable last     *)
(* holds the history of the threads whose calls are recorded.              *)
NoCall == [op |-> "", task |-> NULL, was |-> "", dom |-> "", direction |-> "",
           count |-> 0, before |-> NoTick, status |-> "", value |-> 0]

RecordedThreads == DOMAIN last

\* thread t's history becomes c, if the calls of t are recorded
Recorded(t, c) ==
    last' = IF t \in RecordedThreads THEN [last EXCEPT ![t] = c] ELSE last

(* An AgentPool row as _initialize_default_pools inserts it. *)
NewPool == [current_agents |-> 0, active_agents |-> 0,
            health_status |-> "healthy"]

(* psutil's three percentages, as whole numbers. *)
QuietUsage == [cpu_usage |-> 50, memory_usage |-> 50, disk_usage |-> 50]

(* HealthMonitor.__init__: nothing sampled, no monitoring thread. *)
NewHealthMonitor == [is_monitoring |-> FALSE, health_data |-> <<>>, pc |-> "off"]

(* A quiet machine, a store that answers, a health monitor just built and  *)
(* a task processor that has been started.                                 *)
InitServices ==
    /\ env = [usage |-> QuietUsage, store |-> "up"]
    /\ health = NewHealthMonitor
    /\ is_running = TRUE

Init ==
    /\ task = <<>>
    /\ agent = <<>>
    /\ pool = [d \in PoolTypes |-> NewPool]
    /\ task_queue = {}
    /\ clock = 0
    /\ pc = [t \in Threads |-> "idle"]
    /\ loc = [t \in Threads |-> NoLocals]
    /\ tick0 = NoTick
    /\ last = <<>>
    /\ InitServices

(* The same state, with the calls of the threads of R recorded. *)
InitRecorded(R) ==
    /\ task = <<>>
    /\ agent = <<>>
    /\ pool = [d \in PoolTypes |-> NewPool]
    /\ task_queue = {}
    /\ clock = 0
    /\ pc = [t \in Threads |-> "idle"]
    /\ loc = [t \in Threads |-> NoLocals]
    /\ tick0 = NoTick
    /\ last = [t \in R |-> NoCall]
    /\ InitServices

(* The operation of thread t returns.  A worker loop is then back at its   *)
(* test of is_running (task_processor.py, line 83): it goes on to wait on  *)
(* the queue ("idle"), or it ends ("off").                                 *)
Return(t) ==
    /\ pc' = [pc EXCEPT ![t] = IF t \in WorkerThreads /\ ~is_running
                                THEN "off" ELSE "idle"]
    /\ loc' = [loc EXCEPT ![t] = NoLocals]

Goto(t, label, locals) ==
    /\ pc' = [pc EXCEPT ![t] = label]
    /\ loc' = [loc EXCEPT ![t] = locals]

----------------------------------------------------------------------------
(* Creating a task: api_routes.submit_task builds the row and commits it.  *)

NewTask(d, p) ==
    [task_type |-> d, priority |-> p, status |-> "pending", agent_id |-> NULL,
     started_at |-> FALSE, completed_at |-> FALSE,
     response |-> "", error_message |-> ""]

CreateTask(t, d, p, limit) ==
    /\ pc[t] = "idle"
    /\ Len(task) < limit
    /\ task' = Append(task, NewTask(d, p))
    /\ UNCHANGED <<agent, pool, task_queue, clock, pc, loc, tick0, last, hvars>>

----------------------------------------------------------------------------
(* TaskProcessor: the queue *)

(* The task's priority taken as the queue's key without the inversion. *)
QueuePriority_Ascending(p) == p

\* priority = 10 - task.priority
QueuePriority(p) == 10 - p

\* the entry submit_task puts on the queue
QueueEntry(k, ts) == <<QueuePriority(task[k].priority), k, ts>>

\* Python's order on tuples, which queue.PriorityQueue uses
TupleLess(x, y) ==
    \/ x[1] < y[1]
    \/ x[1] = y[1] /\ x[2] < y[2]
    \/ x[1] = y[1] /\ x[2] = y[2] /\ x[3] < y[3]

\* the entry queue.PriorityQueue.get() returns
QueueHead(q) == CHOOSE e \in q : \A f \in q \ {e} : TupleLess(e, f)

submit_task(t, k) ==
    /\ pc[t] = "idle"
    /\ k \in ExistingTasks
    /\ clock < MaxSubmits
    /\ clock' = clock + 1
    /\ task_queue' = task_queue \cup {QueueEntry(k, clock + 1)}
    /\ Recorded(t, [NoCall EXCEPT !.op = "submit_task", !.task = k,
                                  !.was = task[k].status,
                                  !.status = "queued"])
    /\ UNCHANGED <<task, agent, pool, pc, loc, tick0, hvars>>

----------------------------------------------------------------------------
(* TaskProcessor._process_task_internal *)

(* Lines 111-113: the task is marked processing and committed, whatever    *)
(* its status was.  The row, reloaded after the commit, gives the agent_id *)
(* the rest of the function sees.                                          *)
MarkProcessing(tbl, k) ==
    [tbl EXCEPT ![k].status = "processing", ![k].started_at = TRUE]

(* Lines 131-144 and 176-180: what the handler's outcome writes on the     *)
(* task.  "ok": route_query returned a response; "error": it returned an   *)
(* error dictionary; "raise": an exception reached the except branch.      *)
HandlerOutcomes == {"ok", "error", "raise"}

\* m: the message of the error dictionary or of the exception
RecordResult(row, o, m) ==
    IF o = "ok"
    THEN [row EXCEPT !.status = "completed", !.response = "response",
                     !.completed_at = TRUE]
    ELSE [row EXCEPT !.status = "failed", !.error_message = m,
                     !.completed_at = TRUE]

\* with the outcome's name for its message
RecordOutcome(row, o) == RecordResult(row, o, o)

\* the except branch without its lines 182-185
ReleaseAgent_Keep(tbl, a) == tbl

(* Lines 182-185 (and cancel_task, lines 326-329): the agent of the task,  *)
(* if it still exists, goes back to idle; nothing else of it is written.   *)
ReleaseAgent(tbl, a) ==
    IF a # NULL /\ a \in DOMAIN tbl
    THEN [tbl EXCEPT ![a].status = "idle"]
    ELSE tbl

(* Lines 153-156 as the commit of line 158 stores them.  Column            *)
(* performance_metrics is a plain JSON column (models.py line 30): the     *)
(* assignment of line 154, made while the column is empty, is written by   *)
(* the commit with the entries added to the new dictionary; when the       *)
(* column is not empty, lines 155-156 change the loaded dictionary in      *)
(* place, which the session does not see as a change of the row, and the   *)
(* commit leaves the column as it was.                                     *)
StoredTotal(n) == IF n = 0 THEN 1 ELSE n

\* lines 146-156 without line 150
FinishAgent_Active(tbl, a) ==
    IF a # NULL /\ a \in DOMAIN tbl
    THEN [tbl EXCEPT ![a].last_used = "finish",
                     ![a].total_tasks = StoredTotal(@)]
    ELSE tbl

(* Lines 146-156: the agent of the task, if it still exists, goes back to  *)
(* idle, its last_used and its metrics are written.                        *)
FinishAgent(tbl, a) ==
    IF a # NULL /\ a \in DOMAIN tbl
    THEN [tbl EXCEPT ![a].status = "idle", ![a].last_used = "finish",
                     ![a].total_tasks = StoredTotal(@)]
    ELSE tbl

\* _worker_loop, lines 87-99, up to the commit of line 113
WorkerDequeue(w) ==
    /\ pc[w] = "idle"
    /\ task_queue # {}
    /\ LET e == QueueHead(task_queue)
           k == e[2]
       IN  /\ task_queue' = task_queue \ {e}
           /\ task' = MarkProcessing(task, k)
           /\ Goto(w, "handler", [NoLocals EXCEPT !.task = k, !.entry = e,
                                                 !.agent = task[k].agent_id])
    /\ UNCHANGED <<agent, pool, clock, tick0, last, hvars>>

(* What TaskProcessor.process_task returns (lines 74-77, 168-174): the     *)
(* task's status, or the error when _process_task_internal raised.         *)
ProcessTaskResult(o) ==
    IF o = "ok" THEN "completed" ELSE IF o = "error" THEN "failed" ELSE "error"

(* Lines 125-158 (176-195 when o = "raise"): route_query returns or raises *)
(* and the outcome is committed together with the release of the agent.    *)
(* The caller is TaskProcessor.process_task, or the worker loop, which     *)
(* calls _process_task_internal itself (line 99).                          *)
FinishWith(t, o, m) ==
    /\ task' = [task EXCEPT ![loc[t].task] = RecordResult(@, o, m)]
    /\ agent' = IF o = "raise" THEN ReleaseAgent(agent, loc[t].agent)
                              ELSE FinishAgent(agent, loc[t].agent)
    /\ Return(t)
    /\ IF /\ t \in RecordedThreads
          /\ last[t].op = "process_task"
          /\ last[t].status = ""
       THEN Recorded(t, [last[t] EXCEPT !.status = ProcessTaskResult(o)])
       ELSE Recorded(t, [NoCall EXCEPT !.op = "_process_task_internal",
                                       !.task = loc[t].task,
                                       !.status = ProcessTaskResult(o)])
    /\ UNCHANGED <<pool, task_queue, clock, tick0, hvars>>

(* route_query returns to a thread that waits for it, with outcome o. *)
FinishTask(t, o) ==
    /\ pc[t] = "handler"
    /\ FinishWith(t, o, RecordOutcome(task[loc[t].task], o).error_message)

(* What get_assistant_response gives _process_specialized_query            *)
(* (agent_pools.py, lines 134-142): a response, an error dictionary with a *)
(* message, or an exception; and, "unrouted", a route_query that raises    *)
(* before it calls the provider.                                           *)
HandlerReplies ==
    {[kind |-> "response", text |-> "answer"],
     [kind |-> "error", text |-> "rate limit exceeded"],
     [kind |-> "exception", text |-> "connection timed out"],
     [kind |-> "unrouted", text |-> "no query"]}

(* _process_specialized_query: the error dictionary is raised as an        *)
(* exception (line 142), and every exception is caught and returned as a   *)
(* dictionary without a response (lines 162-168).                          *)
ProcessSpecializedQuery(r) ==
    IF r.kind = "response"
    THEN [success |-> TRUE, response |-> "response"]
    ELSE [success |-> FALSE, error |-> r.text,
          fallback_response |-> "fallback"]

\* f"Query routing failed: {str(e)}"
RoutingFailed(text) == "Query routing failed: no query"

(* route_query, lines 52-78 *)
RouteQuery(r) ==
    IF r.kind = "unrouted"
    THEN [error |-> TRUE, message |-> RoutingFailed(r.text)]
    ELSE [pool_used |-> "pool", result |-> ProcessSpecializedQuery(r)]

(* task_processor.py, lines 131-144 and 176-180: the outcome and the       *)
(* message _process_task_internal draws from what route_query returned.    *)
(* result['result']['response'] of a dictionary without that key raises    *)
(* KeyError('response'), whose str() is the key in quotes.                 *)
TaskResult(result) ==
    IF "error" \in DOMAIN result /\ result.error
    THEN [o |-> "error", m |-> result.message]
    ELSE IF "response" \in DOMAIN result.result
    THEN [o |-> "ok", m |-> ""]
    ELSE [o |-> "raise", m |-> "'response'"]

(* The provider answers the call that thread t waits for. *)
ProviderAnswers(t) ==
    /\ pc[t] = "handler"
    /\ \E r \in HandlerReplies : Goto(t, "routed", [loc[t] EXCEPT !.reply = r])
    /\ UNCHANGED <<task, agent, pool, task_queue, clock, tick0, last, hvars>>

(* route_query returns and _process_task_internal goes on to its commit. *)
FinishRouted(t) ==
    /\ pc[t] = "routed"
    /\ LET res == TaskResult(RouteQuery(loc[t].reply))
       IN FinishWith(t, res.o, res.m)

----------------------------------------------------------------------------
(* TaskProcessor.cancel_task *)

CancelRow(row) ==
    [row EXCEPT !.status = "cancelled", !.completed_at = TRUE,
                !.error_message = "cancelled"]

cancel_task(t, k) ==
    /\ pc[t] = "idle"
    /\ k \in ExistingTasks
    /\ IF task[k].status \in {"completed", "failed"}
       THEN /\ UNCHANGED <<task, agent>>
            /\ Recorded(t, [NoCall EXCEPT !.op = "cancel_task", !.task = k,
                               !.was = task[k].status,
                               !.status = "Task already finished"])
       ELSE /\ task' = [task EXCEPT ![k] = CancelRow(@)]
            /\ agent' = ReleaseAgent(agent, task[k].agent_id)
            /\ Recorded(t, [NoCall EXCEPT !.op = "cancel_task", !.task = k,
                               !.was = task[k].status,
                               !.status = "cancelled"])
    /\ UNCHANGED <<pool, task_queue, clock, pc, loc, tick0, hvars>>

----------------------------------------------------------------------------
(* AgentMasterController._scale_pool_up and _scale_pool_down: the commits. *)
(* cur is pool.current_agents as the calling thread loaded it.             *)

\* lines 141-153: count rows are added while current_agents < max_agents
ScaleUpCount(d, cur, count) == Min2(count, max_agents(d) - cur)

ScaleUpCommit(t, d, cur, count) ==
    LET n == IF ScaleUpCount(d, cur, count) > 0
             THEN ScaleUpCount(d, cur, count) ELSE 0
        ids == FirstFree(FreeAgentIds, n)
    IN  /\ Cardinality(FreeAgentIds) >= n
        /\ agent' = InsertAgents(agent, ids, d)
        /\ pool' = [pool EXCEPT ![d].current_agents = cur + n]

(* lines 168-172: the rows selected at lines 163-166 are deleted and       *)
(* current_agents is decreased once for each.  A selected row that another *)
(* session deleted meanwhile makes the flush fail: nothing is written.     *)
ScaleDownCommit(t, d, cur, victims) ==
    IF victims \subseteq ExistingAgents
    THEN /\ agent' = DeleteAgents(agent, victims)
         /\ task' = Deassociate(task, victims)
         /\ pool' = [pool EXCEPT ![d].current_agents =
                                      cur - Cardinality(victims)]
    ELSE UNCHANGED <<agent, task, pool>>

\* the selection of lines 163-166 without its agent_type
IdleSelections_AnyType(d, count) ==
    {S \in SUBSET {a \in ExistingAgents : agent[a].status = "idle"} :
        Cardinality(S) = Min2(count, Cardinality(AgentsOf(d, "idle")))}

(* Lines 163-166: Agent.query.filter_by(agent_type=pool.pool_type,         *)
(* status='idle').limit(count).all()                                       *)
IdleSelections(d, count) ==
    {S \in SUBSET AgentsOf(d, "idle") :
        Cardinality(S) = Min2(count, Cardinality(AgentsOf(d, "idle")))}

----------------------------------------------------------------------------
(* AgentMasterController.process_task *)

(* Lines 281-299 up to the call of _scale_pool_up, and the else branch of  *)
(* lines 315-317 when no scale-up is attempted.  tbl is table Task as the  *)
(* call finds it.                                                          *)
ProcessTaskFind(t, k, tbl) ==
    LET d == tbl[k].task_type
        idle == AgentsOf(d, "idle")
        call == [NoCall EXCEPT !.op = "process_task", !.task = k, !.dom = d,
                               !.was = tbl[k].status,
                               !.before = SnapshotOf(d)]
    IN  IF idle # {}
        THEN /\ \E a \in idle :
                   Goto(t, "assign", [NoLocals EXCEPT !.task = k, !.dom = d,
                                                      !.agent = a])
             /\ task' = tbl
             /\ Recorded(t, call)
        ELSE IF d \in PoolTypes /\ pool[d].current_agents < max_agents(d)
        THEN /\ Goto(t, "scale_up",
                     [NoLocals EXCEPT !.task = k, !.dom = d,
                                      !.cur = pool[d].current_agents])
             /\ task' = tbl
             /\ Recorded(t, call)
        ELSE /\ task' = [tbl EXCEPT ![k].status = "pending"]
             /\ Recorded(t, [call EXCEPT !.status = "queued"])
             /\ UNCHANGED <<pc, loc>>

process_task(t, k) ==
    /\ pc[t] = "idle"
    /\ k \in ExistingTasks
    /\ ProcessTaskFind(t, k, task)
    /\ UNCHANGED <<agent, pool, task_queue, clock, tick0, hvars>>

(* api_routes.submit_task, lines 87-99 (replit_interface.py, 182-194): the *)
(* task is created and handed to process_task in the same request.         *)
api_submit_task(t, d, p) ==
    /\ pc[t] = "idle"
    /\ Len(task) < MaxConcTasks
    /\ ProcessTaskFind(t, Len(task) + 1, Append(task, NewTask(d, p)))
    /\ UNCHANGED <<agent, pool, task_queue, clock, tick0, hvars>>

(* Lines 295-299: the commit of _scale_pool_up(pool, 1) and the second     *)
(* query for an idle agent.                                                *)
ProcessTaskScaleUp(t) ==
    /\ pc[t] = "scale_up"
    /\ ScaleUpCommit(t, loc[t].dom, loc[t].cur, 1)
    /\ \E a \in {x \in DOMAIN agent' : /\ agent'[x].agent_type = loc[t].dom
                                       /\ agent'[x].status = "idle"} :
          Goto(t, "assign", [loc[t] EXCEPT !.agent = a])
    /\ UNCHANGED <<task, task_queue, clock, tick0, last, hvars>>

(* Lines 301-312 and, inside task_processor.process_task, 111-113.  The    *)
(* agent found earlier is written active without being read again; if its  *)
(* row is gone the flush fails and process_task returns the error.         *)
ProcessTaskAssign(t) ==
    /\ pc[t] = "assign"
    /\ IF loc[t].agent \in ExistingAgents
       THEN /\ task' = [MarkProcessing(task, loc[t].task)
                           EXCEPT ![loc[t].task].agent_id = loc[t].agent]
            /\ agent' = [agent EXCEPT ![loc[t].agent].status = "active",
                                      ![loc[t].agent].last_used = "assign"]
            /\ Goto(t, "handler", [NoLocals EXCEPT !.task = loc[t].task,
                                                  !.agent = loc[t].agent])
            /\ UNCHANGED last
       ELSE /\ UNCHANGED <<task, agent>>
            /\ Return(t)
            /\ Recorded(t, [last[t] EXCEPT !.status = "error"])
    /\ UNCHANGED <<pool, task_queue, clock, tick0, hvars>>

----------------------------------------------------------------------------
(* AgentMasterController.scale_pool *)

(* scale_pool that scales up as far as max_agents allows when the count    *)
(* asked for does not fit.                                                 *)
scale_pool_Clamped(t, d, direction, count) ==
    /\ pc[t] = "idle"
    /\ LET cur == pool[d].current_agents
           call == [NoCall EXCEPT !.op = "scale_pool", !.dom = d,
                                  !.direction = direction, !.count = count,
                                  !.before = TableSnapshot(d)]
       IN  IF direction = "up"
           THEN /\ Goto(t, "sp_up", [NoLocals EXCEPT !.dom = d,
                                         !.cur = cur, !.n = count])
                /\ Recorded(t, call)
           ELSE IF cur - count >= min_agents(d)
                THEN /\ \E S \in IdleSelections(d, count) :
                           Goto(t, "sp_down", [NoLocals EXCEPT !.dom = d,
                                                  !.cur = cur, !.n = count,
                                                  !.victims = S])
                     /\ Recorded(t, call)
                ELSE /\ UNCHANGED <<pc, loc>>
                     /\ Recorded(t, [call EXCEPT !.status =
                                        "Cannot scale below minimum"])
    /\ UNCHANGED <<task, agent, pool, task_queue, clock, tick0, hvars>>

\* lines 327-342, and for 'down' the selection of lines 163-166
scale_pool(t, d, direction, count) ==
    /\ pc[t] = "idle"
    /\ LET cur == pool[d].current_agents
           call == [NoCall EXCEPT !.op = "scale_pool", !.dom = d,
                                  !.direction = direction, !.count = count,
                                  !.before = TableSnapshot(d)]
       IN  IF direction = "up"
           THEN IF cur + count <= max_agents(d)
                THEN /\ Goto(t, "sp_up", [NoLocals EXCEPT !.dom = d,
                                              !.cur = cur, !.n = count])
                     /\ Recorded(t, call)
                ELSE /\ UNCHANGED <<pc, loc>>
                     /\ Recorded(t, [call EXCEPT !.status =
                                        "Cannot scale above maximum"])
           ELSE IF cur - count >= min_agents(d)
                THEN /\ \E S \in IdleSelections(d, count) :
                           Goto(t, "sp_down", [NoLocals EXCEPT !.dom = d,
                                                  !.cur = cur, !.n = count,
                                                  !.victims = S])
                     /\ Recorded(t, call)
                ELSE /\ UNCHANGED <<pc, loc>>
                     /\ Recorded(t, [call EXCEPT !.status =
                                        "Cannot scale below minimum"])
    /\ UNCHANGED <<task, agent, pool, task_queue, clock, tick0, hvars>>

ScalePoolUp(t) ==
    /\ pc[t] = "sp_up"
    /\ ScaleUpCommit(t, loc[t].dom, loc[t].cur, loc[t].n)
    /\ Return(t)
    /\ Recorded(t, [last[t] EXCEPT !.status = "success",
                       !.value = pool'[loc[t].dom].current_agents])
    /\ UNCHANGED <<task, task_queue, clock, tick0, hvars>>

ScalePoolDown(t) ==
    /\ pc[t] = "sp_down"
    /\ ScaleDownCommit(t, loc[t].dom, loc[t].cur, loc[t].victims)
    /\ Return(t)
    /\ Recorded(t, [last[t] EXCEPT !.status = "success",
                       !.value = pool'[loc[t].dom].current_agents])
    /\ UNCHANGED <<task_queue, clock, tick0, hvars>>

----------------------------------------------------------------------------
(* AgentMasterController._monitoring_loop: one iteration is                *)
(* _update_pool_status, _auto_scale_pools, _collect_metrics.               *)

\* lines 91-104: the two counts of every pool
UpdatePoolStatusRead(m) ==
    /\ pc[m] = "idle"
    /\ Goto(m, "us_commit",
            [NoLocals EXCEPT !.counts =
                [d \in PoolTypes |->
                    [active |-> Cardinality(AgentsOf(d, "active")),
                     total  |-> Cardinality(AgentsOfType(d))]]])
    /\ UNCHANGED <<task, agent, pool, task_queue, clock, tick0, last, hvars>>

(* Line 106, and line 114: the pools are loaded again right after the      *)
(* commit, so the session holds the values it has just written.            *)
UpdatePoolStatusCommit(m) ==
    /\ pc[m] = "us_commit"
    /\ pool' = [d \in PoolTypes |->
                   [pool[d] EXCEPT !.current_agents = loc[m].counts[d].total,
                                   !.active_agents  = loc[m].counts[d].active]]
    /\ Goto(m, "as_pool", [loc[m] EXCEPT !.i = 1, !.expired = FALSE])
    /\ UNCHANGED <<task, agent, task_queue, clock, tick0, last, hvars>>

(* pool.current_agents as the monitoring session sees it at line 124: the  *)
(* value loaded at line 114, or, once a commit of this iteration has       *)
(* expired the session's objects, the row as it is now.                    *)
LoadedCurrent(m, d) ==
    IF loc[m].expired THEN pool[d].current_agents ELSE loc[m].counts[d].total

(* The rule with a scale-up already at pending = 2 * current_agents. *)
ScaleDecision_AtTwice(pending, cur, idle, d) ==
    IF pending >= cur * 2 /\ cur < max_agents(d) THEN "up"
    ELSE IF pending = 0 /\ cur > min_agents(d) /\ idle > 1 THEN "down"
    ELSE "none"

(* The rule with a scale-down that does not look at min_agents. *)
ScaleDecision_NoMinimum(pending, cur, idle, d) ==
    IF pending > cur * 2 /\ cur < max_agents(d) THEN "up"
    ELSE IF pending = 0 /\ idle > 1 THEN "down"
    ELSE "none"

\* lines 124-133: the scaling rule
ScaleDecision(pending, cur, idle, d) ==
    IF pending > cur * 2 /\ cur < max_agents(d) THEN "up"
    ELSE IF pending = 0 /\ cur > min_agents(d) /\ idle > 1 THEN "down"
    ELSE "none"

(* Lines 116-133 for one pool: the queries and the decision; for a         *)
(* scale-down also the selection of lines 163-166.                         *)
AutoScaleDecide(m) ==
    /\ pc[m] = "as_pool"
    /\ LET d == PoolOrder[loc[m].i]
           cur == LoadedCurrent(m, d)
           idle == Cardinality(AgentsOf(d, "idle"))
           decision == ScaleDecision(PendingTasks(d), cur, idle, d)
       IN  /\ tick0' = TableSnapshot(d)
           /\ IF decision = "up"
              THEN Goto(m, "as_up", [loc[m] EXCEPT !.dom = d, !.cur = cur])
              ELSE IF decision = "down"
              THEN \E S \in IdleSelections(d, 1) :
                      Goto(m, "as_down", [loc[m] EXCEPT !.dom = d, !.cur = cur,
                                                        !.victims = S])
              ELSE Goto(m, "as_next", [loc[m] EXCEPT !.dom = d])
    /\ UNCHANGED <<task, agent, pool, task_queue, clock, last, hvars>>

\* line 125: _scale_pool_up(pool, 1)
AutoScaleUp(m) ==
    /\ pc[m] = "as_up"
    /\ ScaleUpCommit(m, loc[m].dom, loc[m].cur, 1)
    /\ Goto(m, "as_next", [loc[m] EXCEPT !.expired = TRUE])
    /\ UNCHANGED <<task, task_queue, clock, tick0, last, hvars>>

\* line 133: _scale_pool_down(pool, 1)
AutoScaleDown(m) ==
    /\ pc[m] = "as_down"
    /\ ScaleDownCommit(m, loc[m].dom, loc[m].cur, loc[m].victims)
    /\ Goto(m, "as_next", [loc[m] EXCEPT !.expired = TRUE, !.victims = {}])
    /\ UNCHANGED <<task_queue, clock, tick0, last, hvars>>

(* Line 116: the loop goes to the next pool, or the iteration ends         *)
(* (_collect_metrics writes none of the tables of the model).              *)
AutoScaleNext(m) ==
    /\ pc[m] = "as_next"
    /\ IF loc[m].i < Len(PoolOrder)
       THEN Goto(m, "as_pool", [loc[m] EXCEPT !.i = @ + 1, !.dom = "",
                                              !.cur = 0])
       ELSE Return(m)
    /\ tick0' = NoTick
    /\ UNCHANGED <<task, agent, pool, task_queue, clock, last, hvars>>

----------------------------------------------------------------------------
(* The specifications.  Each one names the threads it runs, the operations *)
(* they call and the sets their arguments are drawn from.                  *)

Priorities == {1, 5}
Directions == {"up", "down"}

Monitor(m) ==
    \/ UpdatePoolStatusRead(m)
    \/ UpdatePoolStatusCommit(m)
    \/ AutoScaleDecide(m)
    \/ AutoScaleUp(m)
    \/ AutoScaleDown(m)
    \/ AutoScaleNext(m)

(* SpecQueue: the task queue and its worker.  Tasks of one pool type are   *)
(* created, submitted to the queue, cancelled, and served by the worker    *)
(* loop, all threads interleaved.                                          *)
QueueRequest(t) ==
    \/ \E p \in Priorities : CreateTask(t, "sports", p, MaxTasks)
    \/ \E k \in TaskIds : submit_task(t, k)
    \/ \E k \in TaskIds : cancel_task(t, k)

QueueWorker(w) ==
    \/ WorkerDequeue(w)
    \/ \E o \in HandlerOutcomes : FinishTask(w, o)

NextQueue ==
    \/ QueueRequest("r1")
    \/ \E w \in WorkerThreads : QueueWorker(w)

SpecQueue == Init /\ [][NextQueue]_vars

(* SpecCancel: the same threads and operations, with the calls of the      *)
(* request thread recorded.                                                *)
InitCancel == InitRecorded({"r1"})

SpecCancel == InitCancel /\ [][NextQueue]_vars

(* SpecPool: the pools under operations that run one at a time: a thread   *)
(* takes a step only while every other thread is between operations or is  *)
(* waiting for route_query to return (its task committed as processing).   *)
(* Tasks of pool type sports are created, the first MaxProcessed of them   *)
(* are handed to process_task (the others stay pending), both pools are    *)
(* scaled by hand, and the monitoring loop runs.                           *)
OthersIdle(t) == \A u \in Threads \ {t} : pc[u] \in {"idle", "handler"}

PoolRequest(t) ==
    \/ CreateTask(t, "sports", 5, MaxPoolTasks)
    \/ \E k \in 1..MaxProcessed : process_task(t, k)
    \/ ProcessTaskScaleUp(t)
    \/ ProcessTaskAssign(t)
    \/ \E d \in PoolTypes, dir \in Directions, n \in 1..MaxCount :
          scale_pool(t, d, dir, n)
    \/ ScalePoolUp(t)
    \/ ScalePoolDown(t)
    \/ FinishTask(t, "ok")

NextPool ==
    \/ OthersIdle("r1") /\ PoolRequest("r1")
    \/ OthersIdle(MonitorThread) /\ Monitor(MonitorThread)

SpecPool == Init /\ [][NextPool]_vars

(* SpecConc: two request threads submit tasks through the API and cancel   *)
(* them, one of them also scales the pool down by hand, and the monitoring *)
(* thread runs; every step of a thread is interleaved with the steps of    *)
(* the others.                                                             *)
ScalingThreads == {"r2"}

ConcRequest(t) ==
    \/ api_submit_task(t, "sports", 5)
    \/ ProcessTaskScaleUp(t)
    \/ ProcessTaskAssign(t)
    \/ \E k \in TaskIds : cancel_task(t, k)
    \/ t \in ScalingThreads /\ scale_pool(t, "sports", "down", 1)
    \/ t \in ScalingThreads /\ ScalePoolDown(t)
    \/ FinishTask(t, "ok")

NextConc ==
    \/ \E t \in RequestThreads : ConcRequest(t)
    \/ Monitor(MonitorThread)

SpecConc == Init /\ [][NextConc]_vars

(* SpecScale: the pools scaled by hand while tasks are processed, the      *)
(* calls of the admin thread recorded.  Two request threads submit sports  *)
(* tasks through the API, the admin thread calls scale_pool; operations    *)
(* run one at a time, and a scale_pool call may run while requests wait    *)
(* for route_query.                                                        *)
ScaleRequest(t) ==
    \/ api_submit_task(t, "sports", 5)
    \/ ProcessTaskScaleUp(t)
    \/ ProcessTaskAssign(t)
    \/ FinishTask(t, "ok")

ScaleAdmin(t) ==
    \/ \E d \in PoolTypes, dir \in Directions, n \in 1..MaxCount :
          scale_pool(t, d, dir, n)
    \/ ScalePoolUp(t)
    \/ ScalePoolDown(t)

NextScale ==
    \/ \E t \in RequestThreads : OthersIdle(t) /\ ScaleRequest(t)
    \/ OthersIdle(AdminThread) /\ ScaleAdmin(AdminThread)

InitScale == InitRecorded({AdminThread})

SpecScale == InitScale /\ [][NextScale]_vars

(* SpecRound: tasks of pool type sports on their way through the          *)
(* controller, every handler outcome included, while the pool is scaled by *)
(* hand.  The calls of request thread r1 are recorded.  Thread r1 runs an  *)
(* operation from its call to its return with no step of another thread in *)
(* between; the other request threads may be waiting for route_query       *)
(* meanwhile, each holding its agent.  A request is for the oldest pending *)
(* task; the handlers of the other threads succeed, and of two free ones   *)
(* the server gives a request to r2.                                       *)
MaxRoundTasks == 3
MaxHealthAgents == 2

PendingIds == {k \in ExistingTasks : task[k].status = "pending"}

OldestPending == {k \in PendingIds : \A j \in PendingIds : k <= j}

RoundRequest(t) ==
    \/ \E k \in OldestPending : process_task(t, k)
    \/ ProcessTaskScaleUp(t)
    \/ ProcessTaskAssign(t)
    \/ \E o \in HandlerOutcomes : FinishTask(t, o)

RoundHolder(t) ==
    \/ \E k \in OldestPending :
          /\ t = "r3" => pc["r2"] = "handler"
          /\ process_task(t, k)
    \/ ProcessTaskScaleUp(t)
    \/ ProcessTaskAssign(t)
    \/ FinishTask(t, "ok")

RoundAdmin(t) ==
    \/ \E dir \in Directions : scale_pool(t, "sports", dir, 1)
    \/ ScalePoolUp(t)
    \/ ScalePoolDown(t)

NextRound ==
    \/ OthersIdle("r1") /\ RoundRequest("r1")
    \/ OthersIdle("r1") /\ CreateTask("r1", "sports", 5, MaxRoundTasks)
    \/ /\ pc["r1"] = "idle"
       /\ \/ \E t \in RoundThreads \ {"r1"} : OthersIdle(t) /\ RoundHolder(t)
          \/ OthersIdle(AdminThread) /\ RoundAdmin(AdminThread)

InitRound == InitRecorded({"r1"})

SpecRound == InitRound /\ [][NextRound]_vars

(* SpecFail: a task of pool type sports is posted and goes through the     *)
(* controller in request thread r1, or it is created and submitted to the  *)
(* queue by thread r2 and goes to the worker, the handler succeeding,      *)
(* returning an error or raising.  A task that a request is working on is  *)
(* not submitted to the queue.  The calls of r1 and of the worker are      *)
(* recorded.                                                               *)
FailQueue(t) ==
    \/ CreateTask(t, "sports", 5, MaxRoundTasks)
    \/ \E k \in PendingIds :
          /\ \A r \in RequestThreads : loc[r].task # k
          /\ submit_task(t, k)

FailRequest(t) ==
    \/ api_submit_task(t, "sports", 5)
    \/ ProcessTaskScaleUp(t)
    \/ ProcessTaskAssign(t)
    \/ \E o \in HandlerOutcomes : FinishTask(t, o)

NextFail ==
    \/ FailRequest("r1")
    \/ FailQueue("r2")
    \/ \E w \in WorkerThreads : QueueWorker(w)

InitFail == InitRecorded({"r1"} \cup WorkerThreads)

SpecFail == InitFail /\ [][NextFail]_vars

(* SpecSubmit: tasks of any type and priority, also ones no pool and no    *)
(* 1-10 scale knows, are created and submitted to the queue, the calls     *)
(* recorded, and the worker serves the queue.                              *)
SubmittedTypes == PoolTypes \cup {"weather"}
SubmittedPriorities == {0, 5, 11}

SubmitRequest(t) ==
    \/ \E d \in SubmittedTypes, p \in SubmittedPriorities :
          CreateTask(t, d, p, MaxTasks)
    \/ \E k \in TaskIds : submit_task(t, k)

NextSubmit ==
    \/ SubmitRequest("r1")
    \/ \E w \in WorkerThreads : WorkerDequeue(w) \/ FinishTask(w, "ok")

InitSubmit == InitRecorded({"r1"})

SpecSubmit == InitSubmit /\ [][NextSubmit]_vars

----------------------------------------------------------------------------
(* The claims *)

ProcessingTasks == {k \in ExistingTasks : task[k].status = "processing"}
NonTerminalTasks == {k \in ExistingTasks : task[k].status \notin Terminal}

AllowedTransitions ==
    {<<"pending", "processing">>, <<"processing", "completed">>,
     <<"processing", "failed">>, <<"pending", "cancelled">>,
     <<"processing", "cancelled">>}

(* C1: once a task is completed, failed or cancelled, no step changes its  *)
(* status, completed_at, response or error_message, and every change of a  *)
(* status is one of pending->processing, processing->completed,            *)
(* processing->failed, pending->cancelled, processing->cancelled.          *)
C1_TerminalImmutable ==
    [][\A k \in ExistingTasks :
          /\ task[k].status \in Terminal =>
                /\ task'[k].status = task[k].status
                /\ task'[k].completed_at = task[k].completed_at
                /\ task'[k].response = task[k].response
                /\ task'[k].error_message = task[k].error_message
          /\ task'[k].status # task[k].status =>
                <<task[k].status, task'[k].status>> \in AllowedTransitions]_vars

(* C2: at every instant each agent is referenced by at most one task that  *)
(* is pending or processing.                                               *)
C2_NoDoubleAssignment ==
    \A a \in AgentIds :
        Cardinality({k \in NonTerminalTasks : task[k].agent_id = a}) <= 1

(* C3: after every scale operation on a pool (the autoscale decision for   *)
(* the pool, a manual scale_pool that scaled, the on-demand scale-up of    *)
(* process_task) the pool has min_agents <= current_agents <= max_agents   *)
(* and active_agents <= current_agents.                                    *)
PoolWithinBounds(row, d) ==
    /\ min_agents(d) <= row.current_agents
    /\ row.current_agents <= max_agents(d)
    /\ row.active_agents <= row.current_agents

ScaleOperationEnds(t) ==
    \/ t = MonitorThread /\ pc[t] # "as_next" /\ pc'[t] = "as_next"
    \/ pc[t] \in {"sp_up", "sp_down", "scale_up"} /\ pc'[t] # pc[t]

ScaledPool(t) == IF pc[t] = "as_pool" THEN loc'[t].dom ELSE loc[t].dom

C3_ScaleKeepsBounds ==
    [][\A t \in Threads :
          ScaleOperationEnds(t) =>
              PoolWithinBounds(pool'[ScaledPool(t)], ScaledPool(t))]_vars

(* C4: when a worker dequeues, the task it takes has the smallest priority *)
(* value of all tasks waiting in the queue.                                *)
Dequeued(e) == e \in task_queue /\ e \notin task_queue'
PriorityOf(e) == task[e[2]].priority

C5_FifoWithinPriority ==
    [][\A e, f \in task_queue :
          Dequeued(e) /\ PriorityOf(e) = PriorityOf(f) => e[3] <= f[3]]_vars

(* C6: a task whose status is processing has an agent and a started_at.    *)
C6_ProcessingHasAgent ==
    \A k \in ProcessingTasks :
        task[k].agent_id # NULL /\ task[k].started_at

(* C7: an agent that is deleted is idle at that moment and is not the      *)
(* agent of a processing task.                                             *)
C7_DeletedAgentIdle ==
    [][\A a \in ExistingAgents :
          a \notin DOMAIN agent' =>
              /\ agent[a].status = "idle"
              /\ \A k \in ProcessingTasks : task[k].agent_id # a]_vars

(* C8: once all operations have finished, current_agents of every pool is  *)
(* the number of existing agents of its type (no increment or decrement    *)
(* was lost).                                                              *)
AllFinished == \A t \in Threads : pc[t] = "idle"

C8_CurrentIsAgentCount ==
    AllFinished =>
        \A d \in PoolTypes :
            pool[d].current_agents = Cardinality(AgentsOfType(d))

(* The scaling rule as the specification words it, applied to the counts   *)
(* of a pool when the tick reaches it.                                     *)
RuleSaysUp(s) ==
    s.pending > 2 * s.current /\ s.current < max_agents(s.dom)

RuleSaysDown(s) ==
    /\ ~RuleSaysUp(s)
    /\ s.pending = 0 /\ s.current > min_agents(s.dom) /\ s.idle > 1

TickDoneWithPool == pc[MonitorThread] = "as_next"

(* C9: when the tick is done with a pool, current_agents is one more than  *)
(* before if pending > 2 * current_agents and current_agents < max_agents  *)
(* held, with one more agent, idle; otherwise one less, with one idle      *)
(* agent less, if pending = 0, current_agents > min_agents and idle > 1    *)
(* held; otherwise current_agents and the agents are as before.            *)
C9_TickFollowsRule ==
    TickDoneWithPool =>
        LET now == TableSnapshot(tick0.dom)
            step == IF RuleSaysUp(tick0) THEN 1
                    ELSE IF RuleSaysDown(tick0) THEN -1 ELSE 0
        IN  /\ now.current = tick0.current + step
            /\ now.total = tick0.total + step
            /\ now.idle = tick0.idle + step
            /\ now.pending = tick0.pending

(* Scenario A: the pool had current_agents = 1 and 3 pending tasks when    *)
(* the tick reached it, and has current_agents = 2 now.                    *)
C9_Witness ==
    /\ TickDoneWithPool
    /\ tick0.current = 1 /\ tick0.pending = 3
    /\ pool[tick0.dom].current_agents = 2

(* C10: a tick that finds a pool with no pending task and all its agents   *)
(* idle, current_agents counting them, leaves current_agents one less if   *)
(* it was above min_agents and unchanged if it was min_agents; the agents  *)
(* left are idle and counted by current_agents, so the next tick finds the *)
(* pool in the same condition, and current_agents is not below min_agents. *)
AllIdleNoPending(s) ==
    s.pending = 0 /\ s.idle = s.total /\ s.current = s.total

C10_DownToMinimum ==
    TickDoneWithPool /\ AllIdleNoPending(tick0)
                    /\ tick0.current >= min_agents(tick0.dom) =>
        LET now == TableSnapshot(tick0.dom)
        IN  /\ AllIdleNoPending(now)
            /\ now.current >= min_agents(tick0.dom)
            /\ tick0.current > min_agents(tick0.dom) =>
                   now.current = tick0.current - 1
            /\ tick0.current = min_agents(tick0.dom) =>
                   now.current = tick0.current

(* Scenario D, last step: the tick found the pool with all its agents idle *)
(* and one agent above min_agents, and has brought it to min_agents.       *)
C10_Witness ==
    /\ TickDoneWithPool
    /\ AllIdleNoPending(tick0)
    /\ tick0.current = min_agents(tick0.dom) + 1
    /\ pool[tick0.dom].current_agents = min_agents(tick0.dom)

(* Thread t's call of operation op returns in this step. *)
Returns(t, op) ==
    /\ last'[t] # last[t]
    /\ last'[t].op = op
    /\ last'[t].status # ""

OutOfBounds(c) ==
    \/ c.direction = "up" /\ c.before.current + c.count > max_agents(c.dom)
    \/ c.direction = "down" /\ c.before.current - c.count < min_agents(c.dom)

BoundsErrors == {"Cannot scale above maximum", "Cannot scale below minimum"}

(* C11: a scale_pool call whose count would take current_agents above      *)
(* max_agents (up) or below min_agents (down) returns a bounds error, and  *)
(* the pool's row and the agents are then as they were when it was called. *)
C11_BoundsErrorNoChange ==
    [][\A t \in RecordedThreads :
          Returns(t, "scale_pool") /\ OutOfBounds(last'[t]) =>
              /\ last'[t].status \in BoundsErrors
              /\ pool' = pool /\ agent' = agent
              /\ pool[last'[t].dom].current_agents =
                     last'[t].before.current]_vars

(* A scale-up by 2 of a pool that has one agent and max_agents = 2 has     *)
(* returned the bounds error, and the pool still has the one agent.        *)
C11_Witness ==
    /\ last[AdminThread].op = "scale_pool"
    /\ last[AdminThread].status = "Cannot scale above maximum"
    /\ last[AdminThread].count = 2
    /\ last[AdminThread].before.current = 1
    /\ pool[last[AdminThread].dom].current_agents = 1
    /\ Cardinality(AgentsOfType(last[AdminThread].dom)) = 1

(* C12: a scale_pool 'down' within the bounds that finds fewer idle agents *)
(* than count returns an error and removes no agent; a call that returns   *)
(* success has added or removed exactly count agents and returns the       *)
(* previous current_agents plus or minus count.                            *)
SignedCount(c) == IF c.direction = "up" THEN c.count ELSE 0 - c.count

C12_ExactDelta ==
    [][\A t \in RecordedThreads :
          Returns(t, "scale_pool") =>
              LET c == last'[t]
              IN  /\ /\ c.direction = "down"
                     /\ ~OutOfBounds(c)
                     /\ c.before.idle < c.count
                     => c.status # "success" /\ agent' = agent
                  /\ c.status = "success" =>
                        /\ Cardinality({a \in DOMAIN agent' :
                                           agent'[a].agent_type = c.dom}) =
                               c.before.total + SignedCount(c)
                        /\ c.value = c.before.current + SignedCount(c)]_vars

(* C13: submit_task of a task whose priority is outside 1..10 or whose     *)
(* type is no known domain returns an error and puts nothing on the queue; *)
(* submit_task of any other task puts it on the queue, its status pending. *)
ValidTask(row) == row.priority \in 1..10 /\ row.task_type \in PoolTypes

C13_SubmitValidates ==
    [][\A t \in RecordedThreads :
          Returns(t, "submit_task") =>
              LET k == last'[t].task
              IN  IF ValidTask(task[k])
                  THEN /\ last'[t].status = "queued"
                       /\ \E e \in task_queue' \ task_queue : e[2] = k
                       /\ task'[k].status = "pending"
                  ELSE /\ last'[t].status # "queued"
                       /\ task_queue' = task_queue]_vars

(* C14: cancel_task of a task that was pending or processing is accepted;  *)
(* cancel_task of a task that was completed, failed or already cancelled   *)
(* returns an error and changes no task row and no agent.                  *)
C14_CancelOnlyLive ==
    [][\A t \in RecordedThreads :
          Returns(t, "cancel_task") =>
              IF last'[t].was \in {"pending", "processing"}
              THEN last'[t].status = "cancelled"
              ELSE /\ last'[t].status # "cancelled"
                   /\ task' = task
                   /\ agent' = agent]_vars

(* C15: cancel_task of a pending task that has an entry in the queue       *)
(* leaves it cancelled with no agent, takes its entry off the queue, which *)
(* gets shorter by one, and no worker starts a cancelled task.             *)
EntriesOf(q, k) == {e \in q : e[2] = k}

StartsTask(w, k) ==
    /\ pc[w] = "idle"
    /\ pc'[w] = "handler"
    /\ loc'[w].task = k

C15_CancelDequeues ==
    [][/\ \A t \in RecordedThreads :
            ( /\ Returns(t, "cancel_task")
              /\ last'[t].was = "pending"
              /\ EntriesOf(task_queue, last'[t].task) # {} ) =>
                LET k == last'[t].task
                IN  /\ task'[k].status = "cancelled"
                    /\ task'[k].agent_id = NULL
                    /\ EntriesOf(task_queue', k) = {}
                    /\ Cardinality(task_queue') = Cardinality(task_queue) - 1
       /\ \A w \in WorkerThreads, k \in ExistingTasks :
            StartsTask(w, k) => task[k].status # "cancelled"]_vars

(* C16: when the handler of a task that was cancelled meanwhile returns,   *)
(* the worker discards the outcome: the task stays cancelled and no        *)
(* response is stored.                                                     *)
HandlerReturns(w) == pc[w] = "handler" /\ pc'[w] = "idle"

C16_CancelledStays ==
    [][\A w \in WorkerThreads :
          ( HandlerReturns(w) /\ task[loc[w].task].status = "cancelled" ) =>
              /\ task'[loc[w].task].status = "cancelled"
              /\ task'[loc[w].task].response = task[loc[w].task].response]_vars

(* C17: when the handler of a task returns an error or raises, the task    *)
(* ends failed with an error message and completed_at set, the agent of    *)
(* the task is idle again, and the thread that ran the task is back where  *)
(* it takes its next task.                                                 *)
HandlerFailed(t) ==
    /\ HandlerReturns(t)
    /\ last'[t].task = loc[t].task
    /\ last'[t].status \in {"failed", "error"}

C17_FailureIsRecorded ==
    [][\A t \in RecordedThreads :
          HandlerFailed(t) =>
              LET k == loc[t].task
                  a == task[k].agent_id
              IN  /\ task'[k].status = "failed"
                  /\ task'[k].error_message # ""
                  /\ task'[k].completed_at
                  /\ a \in DOMAIN agent =>
                        /\ a \in DOMAIN agent'
                        /\ agent'[a].status = "idle"
                  /\ pc'[t] = "idle"]_vars

C17_Witness ==
    \E w \in WorkerThreads, k1, k2 \in ExistingTasks, a \in ExistingAgents :
        /\ last[w].status \in {"failed", "error"}
        /\ pc[w] = "handler"
        /\ task[k1].status = "failed"
        /\ task[k1].error_message = "raise"
        /\ task[k1].agent_id = a
        /\ task[k2].status = "processing"
        /\ task[k2].agent_id = a
        /\ agent[a].status = "active"

(* C18: the step that records the terminal status of a task with an        *)
(* assigned agent, whatever the handler's outcome, also sets the agent     *)
(* idle, writes its last_used and adds one to its total_tasks.             *)
C18_ReleaseCountsUse ==
    [][\A t \in RecordedThreads :
          ( /\ HandlerReturns(t)
            /\ task[loc[t].task].agent_id \in DOMAIN agent
            /\ task[loc[t].task].agent_id = loc[t].agent ) =>
              LET k == loc[t].task
                  a == loc[t].agent
              IN  /\ task'[k].status \in Terminal
                  /\ a \in DOMAIN agent'
                  /\ agent'[a].status = "idle"
                  /\ agent'[a].last_used = "finish"
                  /\ agent'[a].total_tasks = agent[a].total_tasks + 1]_vars

(* C19: when process_task finds no idle agent of the task's type and the   *)
(* pool cannot grow, it answers queued, the task is pending and it has an  *)
(* entry in the queue, from which a worker will take it.                   *)
NoAgentToGet(c) ==
    /\ c.before.idle = 0
    /\ c.before.current >= max_agents(c.dom)

C19_RequeuedWhenNoAgent ==
    [][\A t \in RecordedThreads :
          ( Returns(t, "process_task") /\ NoAgentToGet(last'[t]) ) =>
              LET k == last'[t].task
              IN  /\ last'[t].status = "queued"
                  /\ task'[k].status = "pending"
                  /\ EntriesOf(task_queue', k) # {}]_vars

(* C20, as stated: when a pending task handed to process_task has been     *)
(* processed and completed, current_agents of its pool is what it was      *)
(* before the call, and so is the number of active agents of its type.     *)
Completes(t) ==
    /\ HandlerReturns(t)
    /\ last[t].op = "process_task"
    /\ last[t].was = "pending"
    /\ last'[t].status = "completed"

ActiveAfter(d) ==
    Cardinality({a \in DOMAIN agent' : /\ agent'[a].agent_type = d
                                       /\ agent'[a].status = "active"})

ActiveBefore(c) == c.before.total - c.before.idle

C20_RoundTrip ==
    [][\A t \in RecordedThreads :
          Completes(t) =>
              /\ pool'[last[t].dom].current_agents = last[t].before.current
              /\ ActiveAfter(last[t].dom) = ActiveBefore(last[t])]_vars

(* C20, amended: the number of active agents of the type is what it was    *)
(* before the call; current_agents is what it was before the call when an  *)
(* idle agent of the type existed then, and one more when none existed,    *)
(* the agent added by the scale-up of process_task staying in the pool.    *)
GrownBy(c) == IF c.before.idle = 0 THEN 1 ELSE 0

C20_RoundTripGrows ==
    [][\A t \in RecordedThreads :
          Completes(t) =>
              /\ pool'[last[t].dom].current_agents =
                     last[t].before.current + GrownBy(last[t])
              /\ ActiveAfter(last[t].dom) = ActiveBefore(last[t])]_vars

C20_Witness ==
    /\ pc["r1"] = "idle"
    /\ last["r1"].op = "process_task"
    /\ last["r1"].status = "completed"
    /\ last["r1"].before.idle = 0
    /\ last["r1"].before.total = 1
    /\ pool["sports"].current_agents = 2
    /\ Cardinality(AgentsOf("sports", "active")) = 1
    /\ pc["r2"] = "handler"

----------------------------------------------------------------------------
----------------------------------------------------------------------------
(* TaskProcessor.start and stop.  A worker loop that is "idle" has tested  *)
(* is_running and waits in task_queue.get(timeout=1.0).                    *)

(* start: the max_workers loops are created.  A start that finds loops of  *)
(* an earlier start still running would add its loops to them; the model   *)
(* has one name per loop, and takes a start once the earlier loops have    *)
(* ended.                                                                  *)
TaskProcessorStart ==
    /\ ~is_running
    /\ \A w \in WorkerThreads : pc[w] = "off"
    /\ is_running' = TRUE
    /\ pc' = [t \in Threads |-> IF t \in WorkerThreads THEN "idle" ELSE pc[t]]
    /\ UNCHANGED <<task, agent, pool, task_queue, clock, loc, tick0, last, env,
                   health>>

(* stop: the flag is cleared; the loops are not joined. *)
TaskProcessorStop ==
    /\ is_running
    /\ is_running' = FALSE
    /\ UNCHANGED <<task, agent, pool, task_queue, clock, pc, loc, tick0, last,
                   env, health>>

\* lines 87-88 for a loop that waits again without the test of line 83
WorkerTimeout_WaitsOn(w) ==
    /\ pc[w] = "idle"
    /\ ~is_running
    /\ UNCHANGED vars

(* Lines 87-88 and 83: the wait of worker w times out (queue.Empty), the   *)
(* loop continues and finds is_running false.  (With is_running true the   *)
(* loop waits again: no change of state.)                                  *)
WorkerTimeout(w) ==
    /\ pc[w] = "idle"
    /\ ~is_running
    /\ pc' = [pc EXCEPT ![w] = "off"]
    /\ UNCHANGED <<task, agent, pool, task_queue, clock, loc, tick0, last,
                   hvars>>

(* Specification SpecShutdown: a task processor that is started and        *)
(* stopped while tasks are submitted to its queue.  Every thread of a      *)
(* worker loop gets its turn, and a call of the handler returns or raises. *)
ShutdownRequest(t) ==
    \/ CreateTask(t, "sports", 5, MaxRoundTasks)
    \/ \E k \in PendingIds : submit_task(t, k)

ShutdownWorker(w) ==
    \/ WorkerDequeue(w)
    \/ \E o \in HandlerOutcomes : FinishTask(w, o)
    \/ WorkerTimeout(w)

NextShutdown ==
    \/ TaskProcessorStart \/ TaskProcessorStop
    \/ ShutdownRequest("r1")
    \/ \E w \in WorkerThreads : ShutdownWorker(w)

(* TaskProcessor.__init__: is_running False, no worker loop. *)
InitShutdown ==
    /\ task = <<>>
    /\ agent = <<>>
    /\ pool = [d \in PoolTypes |-> NewPool]
    /\ task_queue = {}
    /\ clock = 0
    /\ pc = [t \in Threads |-> IF t \in WorkerThreads THEN "off" ELSE "idle"]
    /\ loc = [t \in Threads |-> NoLocals]
    /\ tick0 = NoTick
    /\ last = <<>>
    /\ env = [usage |-> QuietUsage, store |-> "up"]
    /\ health = NewHealthMonitor
    /\ is_running = FALSE

SpecShutdown ==
    /\ InitShutdown /\ [][NextShutdown]_vars
    /\ \A w \in WorkerThreads : WF_vars(ShutdownWorker(w))

(* Specification SpecHandler: tasks are submitted to the queue and served  *)
(* by the worker loop, whose calls of the handler are answered by the AI   *)
(* provider in every way it can answer.                                    *)
HandlerWorker(w) ==
    \/ WorkerDequeue(w)
    \/ ProviderAnswers(w)
    \/ FinishRouted(w)

NextHandler ==
    \/ ShutdownRequest("r1")
    \/ \E w \in WorkerThreads : HandlerWorker(w)

InitHandler == InitRecorded(WorkerThreads)

SpecHandler == InitHandler /\ [][NextHandler]_vars

----------------------------------------------------------------------------
(* HealthMonitor (health_monitor.py).  health_data is a dictionary: a      *)
(* function whose domain is the keys set so far ("system", "agents",       *)
(* "database", "alerts").  Percentages are whole numbers; the score is     *)
(* counted in tenths of a point, so that the weights 0.5, 0.7 and 0.3 are  *)
(* exact.                                                                  *)

alert_thresholds ==
    [cpu_usage |-> 80, memory_usage |-> 85, disk_usage |-> 90,
     agent_failure_rate |-> 10]

\* hd[k] = v
Put(hd, k, v) == [x \in DOMAIN hd \cup {k} |-> IF x = k THEN v ELSE hd[x]]

Max0(x) == IF x > 0 THEN x ELSE 0

(* The store takes a statement: it is not unreachable. *)
StoreAnswers == env.store # "down"

(* _collect_system_metrics: the samples are cached after the commit of the *)
(* SystemMetrics rows, so a failed commit leaves the old samples.          *)
CollectSystemMetrics(hd) ==
    IF StoreAnswers THEN Put(hd, "system", env.usage) ELSE hd

(* Lines 126-141, with failure_rate > 10 and utilization > 90 written      *)
(* without the division.                                                   *)
PoolStatus(d, total, active, failed) ==
    IF total > 0 /\ failed * 100 > alert_thresholds.agent_failure_rate * total
    THEN "critical"
    ELSE IF total < min_agents(d) THEN "warning"
    ELSE IF total > 0 /\ active * 100 > 90 * total THEN "overloaded"
    ELSE "healthy"

PoolHealthEntry(d, total, active, failed) ==
    [total_agents |-> total, active_agents |-> active,
     failed_agents |-> failed, min_agents |-> min_agents(d),
     health_status |-> PoolStatus(d, total, active, failed)]

(* The three counts of lines 116-124 and the entry of lines 143-152. *)
PoolHealth(d) ==
    PoolHealthEntry(d, Cardinality(AgentsOfType(d)),
                    Cardinality(AgentsOf(d, "active")),
                    Cardinality(AgentsOf(d, "failed")))

(* _check_agent_health: what it leaves in health_data ... *)
CheckAgentHealth(hd) ==
    IF StoreAnswers THEN Put(hd, "agents", [d \in PoolTypes |-> PoolHealth(d)])
    ELSE hd

(* ... and in the table AgentPool (lines 154-157). *)
PoolsAfterCheck ==
    IF StoreAnswers
    THEN [d \in PoolTypes |->
             [pool[d] EXCEPT !.health_status = PoolHealth(d).health_status]]
    ELSE pool

(* _check_database_health: a count that takes a second or more is slow, a  *)
(* count that raises is an error.                                          *)
CheckDatabaseHealth(hd) ==
    Put(hd, "database",
        [status |-> CASE env.store = "up" -> "healthy"
                      [] env.store = "slow" -> "slow"
                      [] env.store = "down" -> "error"])

(* An alert; source is what its message names. *)
Alert(type, severity, source) ==
    [type |-> type, severity |-> severity, source |-> source]

\* lines 207-232
SystemAlerts(hd) ==
    IF "system" \notin DOMAIN hd THEN <<>>
    ELSE (IF hd["system"].cpu_usage > alert_thresholds.cpu_usage
          THEN <<Alert("system", "warning", "cpu")>> ELSE <<>>)
         \o (IF hd["system"].memory_usage > alert_thresholds.memory_usage
             THEN <<Alert("system", "critical", "memory")>> ELSE <<>>)
         \o (IF hd["system"].disk_usage > alert_thresholds.disk_usage
             THEN <<Alert("system", "critical", "disk")>> ELSE <<>>)

\* lines 236-251, for the pools from the i-th on
RECURSIVE AgentAlertsFrom(_, _)
AgentAlertsFrom(agents, i) ==
    IF i > Len(PoolOrder) THEN <<>>
    ELSE LET d == PoolOrder[i]
             s == agents[d].health_status
         IN (IF s = "critical" THEN <<Alert("agent", "critical", d)>>
             ELSE IF s = "warning" THEN <<Alert("agent", "warning", d)>>
             ELSE <<>>)
            \o AgentAlertsFrom(agents, i + 1)

AgentAlerts(hd) ==
    IF "agents" \in DOMAIN hd THEN AgentAlertsFrom(hd["agents"], 1) ELSE <<>>

\* lines 254-269
DatabaseAlerts(hd) ==
    IF "database" \notin DOMAIN hd THEN <<>>
    ELSE IF hd["database"].status = "error"
         THEN <<Alert("database", "critical", "database")>>
    ELSE IF hd["database"].status = "slow"
         THEN <<Alert("database", "warning", "database")>>
    ELSE <<>>

\* line 205 as a list that goes on from the retained one
NoAlerts_Retained(hd) == IF "alerts" \in DOMAIN hd THEN hd["alerts"] ELSE <<>>

\* line 205: alerts = []
NoAlerts(hd) == <<>>

(* _evaluate_alerts *)
EvaluateAlerts(hd) ==
    Put(hd, "alerts",
        NoAlerts(hd) \o SystemAlerts(hd) \o AgentAlerts(hd) \o DatabaseAlerts(hd))

(* The four calls of a monitoring tick, and of a report that recomputes. *)
Refresh(hd) ==
    EvaluateAlerts(CheckDatabaseHealth(CheckAgentHealth(
        CollectSystemMetrics(hd))))

\* lines 318-322, in tenths
SystemPenalty(hd) ==
    IF "system" \notin DOMAIN hd THEN 0
    ELSE Max0((hd["system"].cpu_usage - 70) * 5)
         + Max0((hd["system"].memory_usage - 80) * 7)
         + Max0((hd["system"].disk_usage - 85) * 3)

\* lines 330-336, in tenths
StatusPenalty(s) ==
    IF s = "critical" THEN 150
    ELSE IF s = "warning" THEN 50
    ELSE IF s = "overloaded" THEN 30
    ELSE 0

RECURSIVE StatusPenaltiesFrom(_, _)
StatusPenaltiesFrom(agents, i) ==
    IF i > Len(PoolOrder) THEN 0
    ELSE StatusPenalty(agents[PoolOrder[i]].health_status)
         + StatusPenaltiesFrom(agents, i + 1)

\* lines 325-339: failed_pools / total_pools > 0.5 without the division
AgentPenalty(hd) ==
    IF "agents" \notin DOMAIN hd THEN 0
    ELSE LET agents == hd["agents"]
             total_pools == Cardinality(DOMAIN agents)
             failed_pools == Cardinality({d \in DOMAIN agents :
                                 agents[d].health_status = "critical"})
         IN StatusPenaltiesFrom(agents, 1)
            + (IF total_pools > 0 /\ 2 * failed_pools > total_pools
               THEN 200 ELSE 0)

\* lines 342-347 with an error charged like a slow answer
DatabasePenalty_ErrorAsSlow(hd) ==
    IF "database" \notin DOMAIN hd THEN 0
    ELSE IF hd["database"].status \in {"error", "slow"} THEN 100
    ELSE 0

\* lines 342-347
DatabasePenalty(hd) ==
    IF "database" \notin DOMAIN hd THEN 0
    ELSE IF hd["database"].status = "error" THEN 250
    ELSE IF hd["database"].status = "slow" THEN 100
    ELSE 0

\* lines 350-355
RECURSIVE AlertPenaltiesFrom(_, _)
AlertPenaltiesFrom(alerts, i) ==
    IF i > Len(alerts) THEN 0
    ELSE (IF alerts[i].severity = "critical" THEN 50
          ELSE IF alerts[i].severity = "warning" THEN 20
          ELSE 0)
         + AlertPenaltiesFrom(alerts, i + 1)

AlertPenalty(hd) ==
    IF "alerts" \in DOMAIN hd THEN AlertPenaltiesFrom(hd["alerts"], 1) ELSE 0

\* the score before line 357
RawScore(hd) ==
    1000 - SystemPenalty(hd) - AgentPenalty(hd) - DatabasePenalty(hd)
         - AlertPenalty(hd)

\* line 357 without its bounds
ClampScore_Unbounded(score) == score

\* line 357: max(0, min(100, score))
ClampScore(score) == Max0(Min2(1000, score))

(* _calculate_health_score, in tenths of a point *)
CalculateHealthScore(hd) == ClampScore(RawScore(hd))

(* start_monitoring.  stop_monitoring joins the monitoring thread, so a    *)
(* start that follows a stop finds no thread.                              *)
StartMonitoring ==
    /\ ~health.is_monitoring
    /\ health.pc = "off"
    /\ health' = [health EXCEPT !.is_monitoring = TRUE, !.pc = "collect"]
    /\ UNCHANGED <<task, agent, pool, task_queue, clock, pc, loc, tick0, last,
                   env, is_running>>

(* stop_monitoring, up to the join. *)
StopMonitoring ==
    /\ health.is_monitoring
    /\ health' = [health EXCEPT !.is_monitoring = FALSE]
    /\ UNCHANGED <<task, agent, pool, task_queue, clock, pc, loc, tick0, last,
                   env, is_running>>

\* one call of _monitoring_loop's body: health_data becomes hd
HealthStep(from, to, hd) ==
    /\ health.pc = from
    /\ health' = [health EXCEPT !.health_data = hd, !.pc = to]
    /\ UNCHANGED <<task, agent, task_queue, clock, pc, loc, tick0, last, env,
                   is_running>>

HealthCollect ==
    /\ HealthStep("collect", "agents", CollectSystemMetrics(health.health_data))
    /\ pool' = pool

HealthAgents ==
    /\ HealthStep("agents", "database", CheckAgentHealth(health.health_data))
    /\ pool' = PoolsAfterCheck

HealthDatabase ==
    /\ HealthStep("database", "alerts", CheckDatabaseHealth(health.health_data))
    /\ pool' = pool

HealthAlerts ==
    /\ HealthStep("alerts", "sleep", EvaluateAlerts(health.health_data))
    /\ pool' = pool

(* time.sleep(60) returns and the loop tests is_monitoring. *)
HealthSleep ==
    /\ HealthStep("sleep", IF health.is_monitoring THEN "collect" ELSE "off",
                  health.health_data)
    /\ pool' = pool

(* get_health_report by thread t: what it returns is recorded (the score   *)
(* in value); system_metrics, agent_health, database_health and            *)
(* active_alerts are the entries of health_data after the call.            *)
GetHealthReport(t) ==
    /\ pc[t] = "idle"
    /\ LET recompute == DOMAIN health.health_data = {} \/ ~health.is_monitoring
           hd == IF recompute THEN Refresh(health.health_data)
                 ELSE health.health_data
       IN /\ health' = [health EXCEPT !.health_data = hd]
          /\ pool' = IF recompute THEN PoolsAfterCheck ELSE pool
          /\ Recorded(t, [NoCall EXCEPT !.op = "get_health_report",
                                        !.status = "ok",
                                        !.value = CalculateHealthScore(hd)])
    /\ UNCHANGED <<task, agent, task_queue, clock, pc, loc, tick0, env,
                   is_running>>

(* What psutil can measure: a quiet machine, one past the score's          *)
(* thresholds but below the alerts', and one past the alerts' thresholds.  *)
UsageProfiles ==
    {QuietUsage,
     [cpu_usage |-> 75, memory_usage |-> 83, disk_usage |-> 88],
     [cpu_usage |-> 90, memory_usage |-> 90, disk_usage |-> 95]}

(* The load of the machine changes. *)
UsageChanges ==
    /\ \E u \in UsageProfiles \ {env.usage} : env' = [env EXCEPT !.usage = u]
    /\ UNCHANGED <<task, agent, pool, task_queue, clock, pc, loc, tick0, last,
                   health, is_running>>

(* The store becomes slow or unreachable, or recovers. *)
StoreChanges ==
    /\ \E s \in {"up", "slow", "down"} \ {env.store} :
           env' = [env EXCEPT !.store = s]
    /\ UNCHANGED <<task, agent, pool, task_queue, clock, pc, loc, tick0, last,
                   health, is_running>>

(* Specification SpecHealth: the health monitor over a machine, a store   *)
(* and a table of agents that stay as they are.  They are drawn: any       *)
(* usage profile, any condition of the store, and up to MaxHealthAgents    *)
(* rows of any pool, idle, active or failed, in the order of their kinds.  *)
(* No code of the repository writes the status 'failed' that               *)
(* _check_agent_health counts; such rows stand for rows written to the     *)
(* store by other means.  The pool rows hold the counts                    *)
(* _update_pool_status has written for these agents.                       *)
HealthAgentKinds ==
    <<[d |-> "sports", s |-> "idle"], [d |-> "sports", s |-> "active"],
      [d |-> "sports", s |-> "failed"], [d |-> "general", s |-> "idle"],
      [d |-> "general", s |-> "active"], [d |-> "general", s |-> "failed"]>>

HealthAgentTables ==
    {[a \in DOMAIN ks |->
         [NewAgent(HealthAgentKinds[ks[a]].d) EXCEPT
             !.status = HealthAgentKinds[ks[a]].s]] :
        ks \in {q \in UNION {[1..n -> DOMAIN HealthAgentKinds] :
                                n \in 0..MaxHealthAgents} :
                   \A i \in 1..(Len(q) - 1) : q[i] <= q[i + 1]}}

InitHealth ==
    /\ task = <<>>
    /\ agent \in HealthAgentTables
    /\ pool = [d \in PoolTypes |->
                  [NewPool EXCEPT
                      !.current_agents = Cardinality(AgentsOfType(d)),
                      !.active_agents = Cardinality(AgentsOf(d, "active"))]]
    /\ task_queue = {}
    /\ clock = 0
    /\ pc = [t \in Threads |-> "idle"]
    /\ loc = [t \in Threads |-> NoLocals]
    /\ tick0 = NoTick
    /\ last = [t \in {"r1"} |-> NoCall]
    /\ env \in [usage : UsageProfiles, store : {"up", "slow", "down"}]
    /\ health = NewHealthMonitor
    /\ is_running = TRUE

HealthMonitoring ==
    \/ StartMonitoring \/ StopMonitoring
    \/ HealthCollect \/ HealthAgents \/ HealthDatabase \/ HealthAlerts
    \/ HealthSleep

NextHealth ==
    \/ HealthMonitoring
    \/ GetHealthReport("r1")

SpecHealth == InitHealth /\ [][NextHealth]_vars

(* The store is unreachable while the controller's monitoring thread m is  *)
(* inside an iteration: the statement it is at raises, _update_pool_status *)
(* rolls back (agent_master_controller.py, lines 107-109), the query of    *)
(* _auto_scale_pools raises and is logged (lines 135-136), and the thread  *)
(* sleeps until its next iteration.  Nothing is written.                   *)
MonitorOutage(m) ==
    /\ pc[m] # "idle"
    /\ ~StoreAnswers
    /\ Return(m)
    /\ tick0' = NoTick
    /\ UNCHANGED <<task, agent, pool, task_queue, clock, last, hvars>>

(* Specification SpecOutage: the two monitoring loops and a store that     *)
(* comes and goes.  No task is created and no agent exists, so every       *)
(* decision of _auto_scale_pools is to leave the pool as it is.  A         *)
(* statement of the controller's loop succeeds while the store answers.    *)
NextOutage ==
    \/ HealthMonitoring
    \/ GetHealthReport("r1")
    \/ StoreChanges
    \/ StoreAnswers /\ UpdatePoolStatusRead(MonitorThread)
    \/ StoreAnswers /\ UpdatePoolStatusCommit(MonitorThread)
    \/ StoreAnswers /\ AutoScaleDecide(MonitorThread)
    \/ StoreAnswers /\ AutoScaleNext(MonitorThread)
    \/ MonitorOutage(MonitorThread)

InitOutage == InitRecorded({"r1"})

SpecOutage == InitOutage /\ [][NextOutage]_vars

(* Specification SpecDrift: the health monitor while the load of the       *)
(* machine and the condition of the store change under it.                 *)
NextDrift ==
    \/ HealthMonitoring
    \/ GetHealthReport("r1")
    \/ UsageChanges \/ StoreChanges

InitDrift == InitRecorded({"r1"})

SpecDrift == InitDrift /\ [][NextDrift]_vars

----------------------------------------------------------------------------
(* C21: at any time at most max_workers calls of the domain handler are in *)
(* flight, and every thread inside a call of the handler is one of the     *)
(* worker loops.                                                           *)
InHandler == {t \in Threads : pc[t] = "handler"}

C21_HandlersByWorkers ==
    /\ InHandler \subseteq WorkerThreads
    /\ Cardinality(InHandler) <= Cardinality(WorkerThreads)

(* C30: a task that is given an agent is given one of its own type, and a  *)
(* scaling operation on one pool (a decision of the monitoring loop, a     *)
(* manual scale_pool, the scale-up of process_task) changes neither the    *)
(* agents nor current_agents of another pool.                              *)
NewlyAssigned(k) ==
    /\ k \in DOMAIN task
    /\ task'[k].agent_id # NULL
    /\ task'[k].agent_id # task[k].agent_id

OtherPoolUntouched(d) ==
    /\ pool'[d].current_agents = pool[d].current_agents
    /\ {a \in DOMAIN agent' : agent'[a].agent_type = d} = AgentsOfType(d)
    /\ \A a \in AgentsOfType(d) : agent'[a] = agent[a]

C30_DomainsPartitioned ==
    [][/\ \A k \in DOMAIN task' :
            NewlyAssigned(k) =>
                /\ task'[k].agent_id \in DOMAIN agent'
                /\ agent'[task'[k].agent_id].agent_type = task'[k].task_type
       /\ \A t \in Threads :
            ScaleOperationEnds(t) =>
                \A d \in PoolTypes \ {ScaledPool(t)} :
                    OtherPoolUntouched(d)]_vars

C30_Witness ==
    /\ pc[MonitorThread] = "as_next"
    /\ loc[MonitorThread].expired
    /\ loc[MonitorThread].dom = "sports"
    /\ AgentsOf("general", "idle") # {}
    /\ \E k \in ExistingTasks :
          /\ task[k].status = "processing"
          /\ task[k].agent_id \in AgentsOf("sports", "active")

(* C22: the health score lies between 0 and 100 and does not rise when one  *)
(* of its inputs rises, the others fixed: the cpu, the memory or the disk  *)
(* usage, the number of failed agents of a pool (its failure rate), or the *)
(* alert list by one more alert.                                           *)
\* the usages from below the lowest threshold of the score (70) upwards
Percents == 60..99
Sampled == health.health_data
WithUsage(hd, field, v) ==
    Put(hd, "system", [hd["system"] EXCEPT ![field] = v])
WithPoolCounts(hd, d, total, active, failed) ==
    Put(hd, "agents",
        [hd["agents"] EXCEPT ![d] = PoolHealthEntry(d, total, active, failed)])
WithAlert(hd, a) == Put(hd, "alerts", Append(hd["alerts"], a))
NeverHigher(hd1, hd2) == CalculateHealthScore(hd2) <= CalculateHealthScore(hd1)
C22_ScoreBoundedMonotone ==
    /\ CalculateHealthScore(Sampled) \in 0..1000
    /\ "system" \in DOMAIN Sampled =>
          \A field \in {"cpu_usage", "memory_usage", "disk_usage"} :
            \A v \in Percents :
              NeverHigher(WithUsage(Sampled, field, v),
                          WithUsage(Sampled, field, v + 1))
    /\ "agents" \in DOMAIN Sampled =>
          \A d \in PoolTypes :
            \A total \in 1..(MaxHealthAgents + 1) :
              \A active \in 0..total : \A failed \in 0..(total - active - 1) :
                NeverHigher(WithPoolCounts(Sampled, d, total, active, failed),
                            WithPoolCounts(Sampled, d, total, active, failed + 1))
    /\ "alerts" \in DOMAIN Sampled =>
          \A severity \in {"critical", "warning"} :
            NeverHigher(Sampled,
                        WithAlert(Sampled, Alert("system", severity, "cpu")))
(* a score that line 357 has raised to 0, from samples of every kind *)
C22_Witness ==
    /\ DOMAIN Sampled = {"system", "agents", "database", "alerts"}
    /\ RawScore(Sampled) < 0
    /\ last["r1"].op = "get_health_report" /\ last["r1"].value = 0

(* C25: what get_health_report returns is computed from samples taken by   *)
(* the call itself: the score and the entries of health_data after it are  *)
(* those of a fresh round of sampling, whether the monitoring loop runs or *)
(* not.                                                                    *)
C25_ReportIsFresh ==
    [][\A t \in RecordedThreads : Returns(t, "get_health_report") =>
          /\ health'.health_data = Refresh(health.health_data)
          /\ last'[t].value =
                CalculateHealthScore(Refresh(health.health_data))]_vars

(* C27: a step of the health monitor (a call of its monitoring loop or a   *)
(* health report) leaves every field of every pool record as it was.       *)
C27_HealthLeavesPools ==
    [][(health' # health \/ \E t \in RecordedThreads :
                               Returns(t, "get_health_report"))
          => pool' = pool]_vars

(* C23: the pools take from the score, for each pool, 15 points if its     *)
(* failure rate is above the threshold, 5 if it has fewer agents than      *)
(* min_agents and 3 if its utilization is above 90 %, each whenever it is  *)
(* true of the pool's sampled counts, and 20 more once when more than half *)
(* of the pools are above the failure threshold.                           *)
FailureAbove(e) ==
    e.total_agents > 0
    /\ e.failed_agents * 100 > alert_thresholds.agent_failure_rate * e.total_agents
BelowMinimum(e) == e.total_agents < e.min_agents
UtilizationAbove(e) ==
    e.total_agents > 0 /\ e.active_agents * 100 > 90 * e.total_agents
ConditionsPenalty(e) ==
    (IF FailureAbove(e) THEN 150 ELSE 0) + (IF BelowMinimum(e) THEN 50 ELSE 0)
    + (IF UtilizationAbove(e) THEN 30 ELSE 0)
RECURSIVE SumOfConditions(_, _)
SumOfConditions(agents, D) ==
    IF D = {} THEN 0
    ELSE LET d == CHOOSE x \in D : TRUE
         IN ConditionsPenalty(agents[d]) + SumOfConditions(agents, D \ {d})
C23_EveryConditionCounts ==
    "agents" \in DOMAIN Sampled =>
        LET agents == Sampled["agents"]
            critical == {d \in DOMAIN agents : FailureAbove(agents[d])}
        IN AgentPenalty(Sampled) =
              SumOfConditions(agents, DOMAIN agents)
              + (IF 2 * Cardinality(critical) > Cardinality(DOMAIN agents)
                 THEN 200 ELSE 0)

(* C29: every evaluation of the alerts replaces the retained list: after   *)
(* it the list holds exactly the alerts whose conditions hold in the       *)
(* samples of health_data, each once, so at most one for the cpu, the      *)
(* memory, the disk, each pool and the store.                              *)
AlertsEvaluated ==
    \/ health.pc = "alerts" /\ health'.pc = "sleep"
    \/ /\ \E t \in RecordedThreads : Returns(t, "get_health_report")
       /\ (DOMAIN Sampled = {} \/ ~health.is_monitoring)
HoldingAlerts(hd) ==
    {a \in [type : {"system"}, severity : {"warning", "critical"},
            source : {"cpu", "memory", "disk"}] :
        /\ "system" \in DOMAIN hd
        /\ \/ a.source = "cpu" /\ a.severity = "warning"
              /\ hd["system"].cpu_usage > alert_thresholds.cpu_usage
           \/ a.source = "memory" /\ a.severity = "critical"
              /\ hd["system"].memory_usage > alert_thresholds.memory_usage
           \/ a.source = "disk" /\ a.severity = "critical"
              /\ hd["system"].disk_usage > alert_thresholds.disk_usage}
    \cup {a \in [type : {"agent"}, severity : {"warning", "critical"},
                 source : PoolTypes] :
        /\ "agents" \in DOMAIN hd
        /\ hd["agents"][a.source].health_status = a.severity}
    \cup {a \in [type : {"database"}, severity : {"warning", "critical"},
                 source : {"database"}] :
        /\ "database" \in DOMAIN hd
        /\ \/ a.severity = "critical" /\ hd["database"].status = "error"
           \/ a.severity = "warning" /\ hd["database"].status = "slow"}
C29_AlertsReplaced ==
    [][AlertsEvaluated =>
          LET hd == health'.health_data
              alerts == hd["alerts"]
          IN /\ {alerts[i] : i \in DOMAIN alerts} = HoldingAlerts(hd)
             /\ \A i, j \in DOMAIN alerts :
                   alerts[i].source = alerts[j].source => i = j]_vars
(* the cpu, memory and disk alerts of an earlier report are gone after a   *)
(* tick on a quiet machine                                                 *)
C29_Witness ==
    /\ health.pc = "sleep"
    /\ {"system", "alerts"} \subseteq DOMAIN Sampled
    /\ \A i \in DOMAIN Sampled["alerts"] : Sampled["alerts"][i].type # "system"
    /\ Sampled["system"] = QuietUsage
    /\ last["r1"].op = "get_health_report"
    /\ last["r1"].value < CalculateHealthScore(Sampled)
    /\ last["r1"].value <= 1000 - 200 - 120

(* C24: a monitoring tick that finds the store unreachable records it and  *)
(* goes on: _check_database_health leaves the status error, the alert      *)
(* list evaluated next holds a critical alert of the store, the score is   *)
(* 25 points below that of the same data with a healthy store, the health  *)
(* loop goes to its sleep and from there to its next tick, and the         *)
(* controller's loop ends its iteration and waits for its next one.        *)
StoreAlert == Alert("database", "critical", "database")
WithHealthyStore(hd) == Put(hd, "database", [status |-> "healthy"])
C24_OutageIsRecorded ==
    [][/\ (health.pc = "database" /\ health'.pc # "database" /\ ~StoreAnswers) =>
            /\ health'.health_data["database"].status = "error"
            /\ health'.pc = "alerts"
       /\ (health.pc = "alerts" /\ health'.pc # "alerts"
             /\ Sampled["database"].status = "error") =>
            LET hd == health'.health_data
            IN /\ \E i \in DOMAIN hd["alerts"] : hd["alerts"][i] = StoreAlert
               /\ CalculateHealthScore(hd) =
                     ClampScore(RawScore(WithHealthyStore(hd)) - 250)
               /\ health'.pc = "sleep"
       /\ (health.pc = "sleep" /\ health'.pc # "sleep") =>
            health'.pc = IF health.is_monitoring THEN "collect" ELSE "off"
       /\ (pc'[MonitorThread] # pc[MonitorThread] /\ ~StoreAnswers) =>
            /\ pc'[MonitorThread] = "idle"
            /\ <<task, agent, pool>>' = <<task, agent, pool>>]_vars
(* after a tick during an outage: the error and its alert are in the       *)
(* report, the health loop sleeps, the controller's loop waits             *)
C24_Witness ==
    /\ ~StoreAnswers
    /\ health.pc = "sleep" /\ health.is_monitoring
    /\ {"database", "alerts"} \subseteq DOMAIN Sampled
    /\ Sampled["database"].status = "error"
    /\ \E i \in DOMAIN Sampled["alerts"] : Sampled["alerts"][i] = StoreAlert
    /\ pc[MonitorThread] = "idle"
    /\ pool["sports"].health_status = "warning"
    /\ last["r1"].op = "get_health_report"
    /\ last["r1"].value = CalculateHealthScore(Sampled)
    /\ last["r1"].value <= 1000 - 250 - 50

(* C26: once stop() has cleared is_running, every worker loop ends: a loop *)
(* that waits ends when its wait has timed out, a loop inside the handler  *)
(* when the handler has returned; and a loop that has ended takes no task  *)
(* from the queue: it stays ended until the next start().                  *)
AllWorkersOff == \A w \in WorkerThreads : pc[w] = "off"
C26_WorkersObserveStop ==
    /\ (~is_running) ~> AllWorkersOff
    /\ [][\A w \in WorkerThreads : pc[w] = "off" =>
            /\ pc'[w] # "off" => (~is_running /\ is_running')
            /\ task_queue \subseteq task_queue']_vars
(* the loop has ended after its last task and has left a task in the queue *)
C26_Witness ==
    /\ ~is_running /\ AllWorkersOff
    /\ task_queue # {}
    /\ \E k \in ExistingTasks : task[k].status = "completed"

(* C28: when the AI provider fails with a message, by an error dictionary  *)
(* or by an exception, the task whose handler call it was ends failed and  *)
(* its error_message is that message.                                      *)
C28_HandlerErrorRecorded ==
    [][\A t \in Threads :
          (pc[t] = "routed" /\ pc'[t] # "routed"
             /\ loc[t].reply.kind \in {"error", "exception"}) =>
            /\ task'[loc[t].task].status = "failed"
            /\ task'[loc[t].task].error_message = loc[t].reply.text]_vars

====
